---- MODULE Spec2Model ----
(***************************************************************************)
(* Model of the VisualMesh mesh cache (src/src/tf_op.cpp): mesh_k_error,   *)
(* find_mesh and get_mesh, called concurrently by several op threads.      *)
(* Scalars are exact rationals [num, den] so that the k error comparison   *)
(* is computed, not assumed.                                               *)
(***************************************************************************)
EXTENDS Integers, Sequences, FiniteSets, Bags, TLC

\* ------------------------------------------------------------------ bounds
NThreads == 2
\* get_mesh calls per run when only the height varies (Spec) ...
MaxCalls == 2
\* ... and when every argument varies (SpecArgs)
MaxCallsArgs == 3
MaxHeight == 2
MaxK == 2
MaxTol == 1
MaxDist == 2
MaxCap == 1
\* M_PI_2 in the angle unit of the mesh construction
HalfPi == 2
\* the min_angular_res the mesh is constructed with, in the same unit
MinAngularRes == 1
\* 2 * M_PI in the angle unit of the lookup
Turn == 6
\* rows of the meshes that are looked up, and nodes of each row
MaxLookupRows == 2
MaxRowSize == 2
\* frustum-edge intersections of a row
MaxLimits == 2
\* the most pairs of intersections a row has where the pairing is checked
MaxPairs == 2

\* std::numeric_limits<Scalar>::max(), larger than every error of the model
ScalarMax == 1000000

\* the Scalar for which std::isnan is true
NaN == 0 - 1000

Threads == 1..NThreads
Heights == 1..MaxHeight
Ks == 1..MaxK
Tols == 0..MaxTol
Dists == 1..MaxDist
Caps == 0..MaxCap
\* a call constructs at most one mesh
Ids == 1..(IF MaxCalls > MaxCallsArgs THEN MaxCalls ELSE MaxCallsArgs)

\* ------------------------------------------------------------- scalars
Abs(x) == IF x < 0 THEN -x ELSE x

Q(n) == [num |-> n, den |-> 1]

Less(a, b) == a.num * b.den < b.num * a.den

Leq(a, b) == a.num * b.den <= b.num * a.den

Min(a, b) == IF a < b THEN a ELSE b

\* ------------------------------------------------------------- meshes
\* nullptr
NoMesh == [id |-> 0, h |-> 0, k |-> 0, max_distance |-> 0]

\* visualmesh::Mesh(shape, height, n_intersections, max_distance), with the
\* identity of the allocated object
Mesh(id, h, k, d) == [id |-> id, h |-> h, k |-> k, max_distance |-> d]

\* Shape::k(h_0, h_1): the ratio of intersection counts between two heights
ShapeK(h_0, h_1) == [num |-> h_0, den |-> h_1]

\* std::abs(k - k * shape.k(h_0, h_1))
mesh_k_error(h_0, h_1, k) ==
    LET r == ShapeK(h_0, h_1)
    IN  [num |-> Abs(k * r.den - k * r.num), den |-> r.den]

\* the scan loop of find_mesh: best_it and best_error after visiting it..end
RECURSIVE find_best(_, _, _, _, _, _, _)
find_best(ms, h, k, d, it, best_it, best_error) ==
    IF it > Len(ms)
    THEN [best_it |-> best_it, best_error |-> best_error]
    ELSE LET error == mesh_k_error(ms[it].h, h, k)
         IN  IF d = ms[it].max_distance /\ Less(error, best_error)
             THEN find_best(ms, h, k, d, it + 1, it, error)
             ELSE find_best(ms, h, k, d, it + 1, best_it, best_error)

\* std::iter_swap(a, b): the elements are exchanged, the iterators stay
iter_swap(ms, a, b) ==
    [i \in 1..Len(ms) |-> IF i = a THEN ms[b] ELSE IF i = b THEN ms[a] ELSE ms[i]]

\* find_mesh(meshes, shape, h, k, t, d): the list after the call and the
\* pointer returned; *best_it is read after the swap
find_mesh(ms, h, k, t, d) ==
    IF ms = <<>>
    THEN [meshes |-> ms, mesh |-> NoMesh]
    ELSE LET b == find_best(ms, h, k, d, 1, 1, Q(ScalarMax))
             swapped == iter_swap(ms, 1, b.best_it)
         IN  [meshes |-> swapped,
              mesh |-> IF Leq(b.best_error, Q(t)) THEN swapped[b.best_it] ELSE NoMesh]

\* while (meshes.size() > cached_meshes) meshes.pop_back(): the entries kept
evict_kept(ms, cached_meshes) == SubSeq(ms, 1, Min(Len(ms), cached_meshes))

\* ... and the entries popped
evict_popped(ms, cached_meshes) ==
    {ms[i].id : i \in (Min(Len(ms), cached_meshes) + 1)..Len(ms)}

\* meshes.push_back(new_mesh) after the eviction loop
insert_mesh(ms, cached_meshes, new_mesh) == Append(evict_kept(ms, cached_meshes), new_mesh)

CachedIds(ms) == {ms[i].id : i \in 1..Len(ms)}

\* shared_ptr copy: one more owner of the mesh
acquire(uc, id) == [uc EXCEPT ![id] = @ + 1]

\* shared_ptr destructor: one owner less
release(uc, id) == [uc EXCEPT ![id] = @ - 1]

\* variant: pop_back deletes the popped meshes, whoever else owns them
pop_back_delete(uc, popped) ==
    [i \in DOMAIN uc |-> IF i \in popped THEN 0 ELSE uc[i]]

\* meshes.pop_back() destroys the vector's shared_ptr to each popped mesh
pop_back_release(uc, popped) ==
    [i \in DOMAIN uc |-> IF i \in popped THEN uc[i] - 1 ELSE uc[i]]

\* the meshes whose last owner went away in a step from uc to uc2
freed(uc, uc2) == {i \in DOMAIN uc : uc[i] > 0 /\ uc2[i] = 0}

\* variant: the scope ends without releasing the mutex
unlock_never(mutex, t) == mutex

\* the lock_guard's destructor at the end of a mutex scope
unlock(mutex, t) == mutex \ {t}

\* ---------------------------------------------------------------- state
VARIABLES
    meshes,      \* static std::vector<std::shared_ptr<Mesh>> meshes
    mesh_mutex,  \* static std::mutex mesh_mutex: the threads that own it
    pc,          \* position of each thread in get_mesh
    args,        \* arguments of each thread's current get_mesh call
    new_mesh,    \* the mesh a thread built in its current call, or NoMesh
    ret,         \* the handle get_mesh returned to the caller, or NoMesh
    use_count,   \* shared_ptr use count of each mesh object
    destroyed,   \* mesh objects whose destructor has run
    allocated,   \* number of mesh objects constructed so far
    calls,       \* number of get_mesh calls started
    clock,       \* history: number of get_mesh calls that have returned
    lastUse,     \* history: clock value of each mesh's last return
    cached_meshes,           \* the cached_meshes argument the callers pass
    intersection_tolerance,  \* the intersection_tolerance argument they pass
    firstFor,    \* history: <<arguments, mesh returned by the first call with them>>
    inserted     \* history: meshes that were ever pushed into the cache

\* the state of the construction of one look-up table
VARIABLES
    bpc,   \* position in the constructor
    phi,   \* the loop variable of the two sampling loops
    phis,  \* std::vector<std::pair<Scalar, size_t>> phis
    rows,  \* std::vector<Row> rows
    lut,   \* std::vector<Node> lut: the six neighbour offsets of each node
    ub,    \* history: the construction read rows or lut out of range
    nan_next  \* history: shape.phi returned NaN inside the running sampling loop

\* the state of one call of lookup(Hoc, lens) on the mesh that was built
VARIABLES
    lpc,           \* position in lookup
    lens,          \* lens.type
    lr,            \* the number of rows the loop has been through
    theta_ranges,  \* what theta_limits returned for the last of them
    indices,       \* std::vector<std::pair<size_t, size_t>> indices
    odd_rows,      \* history: rows with an odd number of intersections
    limits,        \* the intersections found in the last row, in ascending
                   \* order (equirectangular) or as t1, t2 (radial)
    first_is_end,  \* the result of the mid-point probe in the last row
    cam_inc,       \* the inclination of the camera axis from straight down
    half_fov,      \* lens.radial.fov * 0.5
    offset,        \* atan2(cam[1], cam[0])
    result         \* the index ranges the call returned

\* the inputs and the status of each thread's last Compute
VARIABLE op

cache == <<meshes, mesh_mutex, pc, args, new_mesh, ret, use_count, destroyed,
           allocated, calls, clock, lastUse, cached_meshes,
           intersection_tolerance, firstFor, inserted>>

build == <<bpc, phi, phis, rows, lut, ub, nan_next>>

look == <<lpc, lens, lr, theta_ranges, indices, odd_rows, limits, first_is_end,
          cam_inc, half_fov, offset, result>>

\* the arguments of a lookup, which it only reads
camera == <<lens, cam_inc, half_fov, offset>>

\* what get_mesh never touches
apart == <<build, look>>

vars == <<cache, build, look, op>>

\* the two arguments that are settings of the op rather than of the frame
config == <<cached_meshes, intersection_tolerance>>

NoArgs == [h |-> 0, k |-> 0, d |-> 0]

Key(a) == <<a.h, a.k, a.d>>

\* the mesh the first call with arguments a returned, 0 before any such call
FirstFor(a) ==
    IF \E e \in firstFor : e[1] = Key(a)
    THEN (CHOOSE e \in firstFor : e[1] = Key(a))[2]
    ELSE 0

CacheInit ==
    /\ meshes = <<>>
    /\ mesh_mutex = {}
    /\ pc = [t \in Threads |-> "idle"]
    /\ args = [t \in Threads |-> NoArgs]
    /\ new_mesh = [t \in Threads |-> NoMesh]
    /\ ret = [t \in Threads |-> NoMesh]
    /\ use_count = [i \in Ids |-> 0]
    /\ destroyed = {}
    /\ allocated = 0
    /\ calls = 0
    /\ clock = 0
    /\ lastUse = [i \in Ids |-> 0]
    /\ cached_meshes \in Caps
    /\ intersection_tolerance \in Tols
    /\ firstFor = {}
    /\ inserted = {}

\* no look-up table under construction, the constructor at position at
NoBuild(at) ==
    /\ bpc = at
    /\ phi = NaN
    /\ phis = <<>>
    /\ rows = <<>>
    /\ lut = <<>>
    /\ ub = FALSE
    /\ nan_next = FALSE

\* no lookup under way
NoLookup ==
    /\ lpc = "off"
    /\ lens = "NONE"
    /\ lr = 0
    /\ theta_ranges = <<>>
    /\ indices = <<>>
    /\ odd_rows = {}
    /\ limits = <<>>
    /\ first_is_end = FALSE
    /\ cam_inc = NaN
    /\ half_fov = NaN
    /\ offset = NaN
    /\ result = <<>>

NoRequest ==
    [projection |-> "", geometry |-> "", radius |-> 0, n_intersections |-> 0,
     cached_meshes |-> 0, status |-> "none"]

OpInit == op = [t \in Threads |-> NoRequest]

Init == CacheInit /\ NoBuild("off") /\ NoLookup /\ OpInit

\* history bookkeeping of a return of mesh m to thread t
NoteReturn(t, m) ==
    /\ ret' = [ret EXCEPT ![t] = m]
    /\ clock' = clock + 1
    /\ lastUse' = [lastUse EXCEPT ![m.id] = clock + 1]
    /\ firstFor' = IF FirstFor(args[t]) = 0
                   THEN firstFor \cup {<<Key(args[t]), m.id>>}
                   ELSE firstFor

\* a thread enters get_mesh(shape, height, n_intersections,
\* intersection_tolerance, cached_meshes, max_distance) with a height of hs,
\* an intersection count of ks and a maximum distance of ds; a run makes at
\* most limit calls
Enter(t, hs, ks, ds, limit) ==
    /\ pc[t] = "idle"
    /\ calls < limit
    /\ \E h \in hs, k \in ks, d \in ds :
          args' = [args EXCEPT ![t] = [h |-> h, k |-> k, d |-> d]]
    /\ calls' = calls + 1
    /\ pc' = [pc EXCEPT ![t] = "lock1"]
    /\ new_mesh' = [new_mesh EXCEPT ![t] = NoMesh]
    /\ UNCHANGED <<meshes, mesh_mutex, ret, use_count, destroyed, allocated,
                   clock, lastUse, config, apart, firstFor, inserted>>

\* a call of an op whose n_intersections and max_distance inputs stay the
\* same from frame to frame: only the camera height changes
Call(t) == Enter(t, Heights, {1}, {1}, MaxCalls) /\ UNCHANGED op

\* a call with any n_intersections and max_distance
CallAny(t) == Enter(t, Heights, Ks, Dists, MaxCallsArgs) /\ UNCHANGED op

\* std::lock_guard<std::mutex> lock(mesh_mutex) of the first scope
Lock1(t) ==
    /\ pc[t] = "lock1"
    /\ mesh_mutex = {}
    /\ mesh_mutex' = mesh_mutex \cup {t}
    /\ pc' = [pc EXCEPT ![t] = "find1"]
    /\ UNCHANGED <<meshes, args, new_mesh, ret, use_count, destroyed, allocated,
                   calls, clock, lastUse, config, apart, op, firstFor, inserted>>

\* first scope: find_mesh, return on a hit, and the scope's unlock
Find1(t) ==
    /\ pc[t] = "find1"
    /\ LET a == args[t]
           r == find_mesh(meshes, a.h, a.k, intersection_tolerance, a.d)
       IN  /\ meshes' = r.meshes
           /\ IF r.mesh # NoMesh
              THEN /\ NoteReturn(t, r.mesh)
                   /\ use_count' = acquire(use_count, r.mesh.id)
                   /\ pc' = [pc EXCEPT ![t] = "returned"]
              ELSE /\ pc' = [pc EXCEPT ![t] = "build"]
                   /\ UNCHANGED <<ret, clock, lastUse, firstFor, use_count>>
    /\ mesh_mutex' = unlock(mesh_mutex, t)
    /\ UNCHANGED <<args, new_mesh, destroyed, allocated, calls, config, apart, op, inserted>>

\* std::make_shared<Mesh>(shape, height, n_intersections, max_distance),
\* outside both mutex scopes
Build(t) ==
    /\ pc[t] = "build"
    /\ allocated' = allocated + 1
    /\ new_mesh' = [new_mesh EXCEPT ![t] =
                       Mesh(allocated + 1, args[t].h, args[t].k, args[t].d)]
    /\ use_count' = acquire(use_count, allocated + 1)
    /\ pc' = [pc EXCEPT ![t] = "lock2"]
    /\ UNCHANGED <<meshes, mesh_mutex, args, ret, destroyed, calls, clock,
                   lastUse, config, apart, op, firstFor, inserted>>

\* std::lock_guard<std::mutex> lock(mesh_mutex) of the second scope
Lock2(t) ==
    /\ pc[t] = "lock2"
    /\ mesh_mutex = {}
    /\ mesh_mutex' = mesh_mutex \cup {t}
    /\ pc' = [pc EXCEPT ![t] = "find2"]
    /\ UNCHANGED <<meshes, args, new_mesh, ret, use_count, destroyed, allocated,
                   calls, clock, lastUse, config, apart, op, firstFor, inserted>>

\* variant: no second scan, the thread always inserts what it built
rescan_skipped(ms, a, t) == [meshes |-> ms, mesh |-> NoMesh]

\* the re-scan of the second scope
rescan(ms, a, t) == find_mesh(ms, a.h, a.k, t, a.d)

\* second scope: re-scan, then either return the cached mesh (the local
\* new_mesh dies) or evict, push_back and return new_mesh; then the unlock
Find2(t) ==
    /\ pc[t] = "find2"
    /\ LET a == args[t]
           r == rescan(meshes, a, intersection_tolerance)
           nm == new_mesh[t]
       IN  IF r.mesh # NoMesh
           THEN /\ meshes' = r.meshes
                /\ NoteReturn(t, r.mesh)
                /\ use_count' = release(acquire(use_count, r.mesh.id), nm.id)
                /\ UNCHANGED inserted
           ELSE /\ meshes' = insert_mesh(r.meshes, cached_meshes, nm)
                /\ NoteReturn(t, nm)
                /\ use_count' = acquire(pop_back_release(use_count,
                                            evict_popped(r.meshes, cached_meshes)), nm.id)
                /\ inserted' = inserted \cup {nm.id}
    /\ destroyed' = destroyed \cup freed(use_count, use_count')
    /\ pc' = [pc EXCEPT ![t] = "returned"]
    /\ mesh_mutex' = unlock(mesh_mutex, t)
    /\ UNCHANGED <<args, new_mesh, allocated, calls, config, apart, op>>

\* the caller drops the handle it was given
Drop(t) ==
    /\ pc[t] = "returned"
    /\ use_count' = release(use_count, ret[t].id)
    /\ destroyed' = destroyed \cup freed(use_count, use_count')
    /\ ret' = [ret EXCEPT ![t] = NoMesh]
    /\ pc' = [pc EXCEPT ![t] = "idle"]
    /\ args' = [args EXCEPT ![t] = NoArgs]
    /\ new_mesh' = [new_mesh EXCEPT ![t] = NoMesh]
    /\ UNCHANGED <<meshes, mesh_mutex, allocated, calls, clock, lastUse, config, apart, op,
                   firstFor, inserted>>

Next ==
    \E t \in Threads :
        \/ Call(t)
        \/ Lock1(t)
        \/ Find1(t)
        \/ Build(t)
        \/ Lock2(t)
        \/ Find2(t)
        \/ Drop(t)

Spec == Init /\ [][Next]_vars

\* a fair scheduler: a thread that can run its next statement does so, and
\* a thread waiting for the mutex gets it if it is free again and again
Fair(t) ==
    /\ SF_vars(Lock1(t) \/ Lock2(t))
    /\ WF_vars(Find1(t) \/ Build(t) \/ Find2(t))

\* the calls of one op with its settings fixed, under the fair scheduler
FairInit == Init /\ cached_meshes = 0 /\ intersection_tolerance = 0

FairSpec == FairInit /\ [][Next]_vars /\ \A t \in Threads : Fair(t)

\* the same threads, with every argument of get_mesh varying between calls
NextArgs ==
    \E t \in Threads :
        \/ CallAny(t)
        \/ Lock1(t)
        \/ Find1(t)
        \/ Build(t)
        \/ Lock2(t)
        \/ Find2(t)
        \/ Drop(t)

SpecArgs == Init /\ [][NextArgs]_vars

\* ------------------------------------------------------ mesh construction
\* VisualMesh::VisualMesh builds one look-up table per height: it samples phi
\* below and above the horizon, sorts the samples, lays out one row of nodes
\* per sample and stitches the rows together.  Angles are whole multiples of
\* a unit in which M_PI_2 is HalfPi.

Pi == 2 * HalfPi
TwoPi == 4 * HalfPi

\* what shape.phi and shape.theta can hand back, NaN included
ShapePhis == {NaN} \cup 0..Pi
ShapeThetas == {NaN} \cup 0..TwoPi

\* an indeterminate word: what a read outside rows or lut can yield
Garbage == {0 - 1, 0, 1}

\* std::max(a, b) is (a < b) ? b : a, and a comparison with NaN is false
std_max(a, b) == IF a # NaN /\ b # NaN /\ a < b THEN b ELSE a

\* std::min(a, b) is (b < a) ? b : a
std_min(a, b) == IF a # NaN /\ b # NaN /\ b < a THEN b ELSE a

\* x * 0.5 for the x whose half is on the grid
Half(x) == IF x = NaN THEN NaN ELSE x \div 2

Halvable(x) == x = NaN \/ x % 2 = 0

\* Pi + x
PiPlus(x) == IF x = NaN THEN NaN ELSE Pi + x

\* size_t(std::ceil(2.0 * M_PI / theta))
steps_of(theta) == (TwoPi + theta - 1) \div theta

\* phis.emplace_back(phi, steps) unless theta is NaN
emplace_phi(ps, p, st) ==
    LET theta == std_max(st, MinAngularRes)
    IN  IF theta = NaN THEN ps ELSE Append(ps, <<p, steps_of(theta)>>)

\* variant: the comparison the wrong way round, which sorts descending
pair_greater(a, b) == b[1] < a[1] \/ (a[1] = b[1] /\ b[2] < a[2])

\* operator< of std::pair<Scalar, size_t>
pair_less(a, b) == a[1] < b[1] \/ (a[1] = b[1] /\ a[2] < b[2])

RECURSIVE sort_insert(_, _)
sort_insert(sorted, x) ==
    IF sorted = <<>> THEN <<x>>
    ELSE IF pair_less(x, Head(sorted)) THEN <<x>> \o sorted
    ELSE <<Head(sorted)>> \o sort_insert(Tail(sorted), x)

\* std::sort(phis.begin(), phis.end())
RECURSIVE std_sort(_)
std_sort(ps) == IF ps = <<>> THEN <<>> ELSE sort_insert(std_sort(Tail(ps)), Head(ps))

\* variant: the last node of a row gets R = +1 like every other node
row_node_open(i, steps) ==
    LET l == IF i = 0 THEN steps - 1 ELSE i - 1
    IN  <<0, 0, l - i, 1, 0, 0>>

\* variant: the first node of a row gets L = -1 like every other node
row_node_unwrapped(i, steps) ==
    LET r == IF i = steps - 1 THEN 0 ELSE i + 1
    IN  <<0, 0, 0 - 1, r - i, 0, 0>>

\* node i of a row of steps nodes: neighbours[2] (L) and neighbours[3] (R)
\* are set, the other four are written when the rows are stitched
row_node(i, steps) ==
    LET l == IF i = 0 THEN steps - 1 ELSE i - 1
        r == IF i = steps - 1 THEN 0 ELSE i + 1
    IN  <<0, 0, l - i, r - i, 0, 0>>

\* the loop over the sorted samples: one row and its nodes per sample
RECURSIVE generate(_, _, _)
generate(ps, rs, nodes) ==
    IF ps = <<>> THEN [rows |-> rs, lut |-> nodes]
    ELSE LET p == Head(ps)[1]
             steps == Head(ps)[2]
         IN  generate(Tail(ps),
                      Append(rs, [phi |-> p, begin |-> Len(nodes),
                                  end |-> Len(nodes) + steps]),
                      nodes \o [i \in 1..steps |-> row_node(i - 1, steps)])

\* lut[i] and rows[r] with the indices of the code, which start at 0
InLut(nodes, i) == 0 <= i /\ i < Len(nodes)
InRows(rs, r) == 0 <= r /\ r < Len(rs)
RowAt(rs, r, g) == IF InRows(rs, r) THEN rs[r + 1] ELSE [phi |-> g, begin |-> g, end |-> g]
RowOf(rs, i) == CHOOSE r \in 0..(Len(rs) - 1) : rs[r + 1].begin <= i /\ i < rs[r + 1].end

\* variant: the second index taken on the other side of o1
link_mirrored(nodes, rel, csize, start, size, g) ==
    LET left == 2 * rel > csize
        o1 == start + ((rel * size) \div csize) + (IF left THEN 0 ELSE 1)
        oob == ~InLut(nodes, o1)
        step == IF oob THEN g ELSE nodes[o1 + 1][IF left THEN 3 ELSE 4]
        o2 == o1 + step
    IN  [first |-> IF left THEN o1 ELSE o2,
         second |-> IF left THEN o2 ELSE o1,
         oob |-> oob]

\* the link lambda for node number rel of a row of csize nodes
\* (pos = rel / csize) towards the row [start, start + size): the absolute
\* indices it stores at neighbours[offset] and neighbours[offset + 1], and
\* whether it read lut out of range (the read then yields g)
link(nodes, rel, csize, start, size, g) ==
    LET left == 2 * rel > csize
        o1 == start + ((rel * size) \div csize) + (IF left THEN 0 ELSE 1)
        oob == ~InLut(nodes, o1)
        step == IF oob THEN g ELSE nodes[o1 + 1][IF left THEN 4 ELSE 3]
        o2 == o1 + step
    IN  [first |-> IF left THEN o1 ELSE o2,
         second |-> IF left THEN o2 ELSE o1,
         oob |-> oob]

\* neighbours 0/1 of a front-row node and 4/5 of a back-row node: the two
\* nodes on the opposite side of its own row
across(row, i) ==
    LET size == row.end - row.begin
        index == i - row.begin + (size \div 2)
    IN  [first |-> row.begin + (index % size),
         second |-> row.begin + ((index + 1) % size)]

\* the rows below (dir = 1) or above (dir = -1) row r that the stitching of
\* node i reads, and what it links to there
towards(rs, nodes, i, r, dir, g) ==
    LET cur == rs[r + 1]
        other == RowAt(rs, r + dir, g)
        l == link(nodes, i - cur.begin, cur.end - cur.begin,
                  other.begin, other.end - other.begin, g)
    IN  [first |-> l.first, second |-> l.second,
         oob |-> l.oob \/ ~InRows(rs, r + dir)]

\* node i after the middle-row loop, the front-row loop and the back-row
\* loop, in that order; a single row is both front and back
stitched_node(rs, nodes, i, g) ==
    LET r == RowOf(rs, i)
        n == nodes[i + 1]
        last == Len(rs) - 1
        up == IF r = 0 /\ last # 0 THEN across(rs[1], i)
              ELSE towards(rs, nodes, i, r, 0 - 1, g)
        down == IF r = last THEN across(rs[last + 1], i)
                ELSE towards(rs, nodes, i, r, 1, g)
    IN  <<up.first - i, up.second - i, n[3], n[4], down.first - i, down.second - i>>

\* whether the stitching of node i read rows or lut out of range
stitch_oob(rs, nodes, i, g) ==
    LET r == RowOf(rs, i)
        last == Len(rs) - 1
    IN  \/ (r # 0 \/ last = 0) /\ towards(rs, nodes, i, r, 0 - 1, g).oob
        \/ (r # last \/ last = 0) /\ towards(rs, nodes, i, r, 1, g).oob

\* the whole stitching; with no row at all the bound rows.size() - 1 of the
\* middle-row loop wraps around and the loop reads rows[0], rows[1], ...
stitch(rs, nodes, g) ==
    [lut |-> [k \in 1..Len(nodes) |-> stitched_node(rs, nodes, k - 1, g)],
     ub |-> rs = <<>> \/ \E k \in 1..Len(nodes) : stitch_oob(rs, nodes, k - 1, g)]

\* Scalar phi = shape.phi(0, h) * 0.5: the first sample below the horizon
BelowBegin ==
    /\ bpc = "start"
    /\ \E sp \in ShapePhis : Halvable(sp) /\ phi' = Half(sp)
    /\ bpc' = "below"
    /\ UNCHANGED <<phis, rows, lut, ub, nan_next, cache, look, op>>

\* one pass of the loop "for (...; phi < M_PI_2;)"
BelowRow ==
    /\ bpc = "below"
    /\ phi # NaN /\ phi < HalfPi
    /\ \E st \in ShapeThetas, sp \in ShapePhis :
          /\ phis' = emplace_phi(phis, phi, st)
          /\ phi' = std_max(phi + MinAngularRes, sp)
          /\ nan_next' = (nan_next \/ sp = NaN)
    /\ UNCHANGED <<bpc, rows, lut, ub, cache, look, op>>

\* the loop below the horizon ends; phi = (M_PI + shape.phi(M_PI, h)) * 0.5
AboveBegin ==
    /\ bpc = "below"
    /\ ~(phi # NaN /\ phi < HalfPi)
    /\ \E sp \in ShapePhis : Halvable(PiPlus(sp)) /\ phi' = Half(PiPlus(sp))
    /\ bpc' = "above"
    /\ nan_next' = FALSE
    /\ UNCHANGED <<phis, rows, lut, ub, cache, look, op>>

\* one pass of the loop "for (...; phi > M_PI_2;)"
AboveRow ==
    /\ bpc = "above"
    /\ phi # NaN /\ phi > HalfPi
    /\ \E st \in ShapeThetas, sp \in ShapePhis :
          /\ phis' = emplace_phi(phis, phi, st)
          /\ phi' = std_min(phi - MinAngularRes, sp)
          /\ nan_next' = (nan_next \/ sp = NaN)
    /\ UNCHANGED <<bpc, rows, lut, ub, cache, look, op>>

\* the loop above the horizon ends; the samples are sorted and the rows and
\* their nodes are laid out
Generate ==
    /\ bpc = "above"
    /\ ~(phi # NaN /\ phi > HalfPi)
    /\ LET made == generate(std_sort(phis), <<>>, <<>>)
       IN  rows' = made.rows /\ lut' = made.lut
    /\ bpc' = "stitch"
    /\ nan_next' = FALSE
    /\ UNCHANGED <<phi, phis, ub, cache, look, op>>

\* the rows are stitched together; after a read out of range the build
\* either goes on with what it read or is killed
Stitch ==
    /\ bpc = "stitch"
    /\ \E g \in Garbage :
          LET s == stitch(rows, lut, g)
          IN  /\ lut' = s.lut
              /\ ub' = s.ub
              /\ bpc' \in (IF s.ub THEN {"done", "crashed"} ELSE {"done"})
    /\ UNCHANGED <<phi, phis, rows, nan_next, cache, look, op>>

MeshNext ==
    \/ BelowBegin
    \/ BelowRow
    \/ AboveBegin
    \/ AboveRow
    \/ Generate
    \/ Stitch

\* the construction of the look-up table of one height
MeshInit ==
    /\ CacheInit
    /\ cached_meshes = 0
    /\ intersection_tolerance = 0
    /\ NoBuild("start")
    /\ NoLookup
    /\ OpInit

MeshSpec == MeshInit /\ [][MeshNext]_vars

\* ----------------------------------------------------------------- lookup
\* VisualMesh::lookup(Hoc, lens) picks the theta_limits of the lens and
\* lookup(height, theta_limits) walks the rows of the mesh, asking
\* theta_limits for the theta ranges on screen in each row and turning them
\* into index ranges.  Thetas are whole multiples of a unit in which a full
\* turn (2 * M_PI) is Turn.

\* std::atan2 returns an angle from -pi to pi
Atan2s == (0 - (Turn \div 2))..(Turn \div 2)

\* theta > 0 ? theta : theta + M_PI * 2.0
normalise(theta) == IF theta > 0 THEN theta ELSE theta + Turn

\* the thetas an intersection with a frustum edge can have
Thetas == {normalise(a) : a \in Atan2s}

\* the collections of at most n frustum-edge intersections a row can have,
\* as bags: two edges can meet the cone at the same theta
RECURSIVE Ascending(_, _)
Ascending(n, lo) ==
    {<<>>} \cup (IF n = 0 THEN {}
                 ELSE UNION {{<<x>> \o s : s \in Ascending(n - 1, x)} :
                                x \in {t \in Thetas : t >= lo}})

LimitBags(n) ==
    {[x \in {s[k] : k \in DOMAIN s} |-> Cardinality({k \in DOMAIN s : s[k] = x})] :
        s \in Ascending(n, 0)}

\* the meshes the lookups run on: up to MaxLookupRows rows of up to
\* MaxRowSize nodes
LookupMeshes ==
    UNION {[1..n -> 1..MaxRowSize] : n \in 0..MaxLookupRows}

SamplesOf(f) == [k \in 1..Len(f) |-> <<k, f[k]>>]

\* std::sort(limits.begin(), limits.end())
RECURSIVE sort_limits(_)
sort_limits(L) ==
    IF BagToSet(L) = {} THEN <<>>
    ELSE LET m == CHOOSE x \in BagToSet(L) : \A y \in BagToSet(L) : x <= y
         IN  <<m>> \o sort_limits(L (-) SetToBag({m}))

\* the loop "for (i = first_is_end ? 1 : 0; i < limits.size() - 1; i += 2)"
RECURSIVE pair_limits(_, _)
pair_limits(ls, i) ==
    IF i < Len(ls) - 1
    THEN <<<<ls[i + 1], ls[i + 2]>>>> \o pair_limits(ls, i + 2)
    ELSE <<>>

\* variant: the interval across the wrap-around is left out
theta_limits_unwrapped(ls, is_end) == pair_limits(ls, IF is_end THEN 1 ELSE 0)

\* the tail of the equirectangular theta_limits: enclosed says that all four
\* edge solutions are complex and the cone is on the camera's side, external
\* and first_is_end are the results of the two test-vector probes
theta_limits_even(ls, is_end) ==
    pair_limits(ls, IF is_end THEN 1 ELSE 0)
        \o (IF is_end THEN <<<<ls[Len(ls)], ls[1]>>>> ELSE <<>>)

\* variant: an odd number of intersections yields the empty list
equirectangular_lenient(enclosed, external, L, is_end) ==
    IF enclosed
    THEN [thrown |-> FALSE, ranges |-> IF external THEN <<>> ELSE <<<<0, Turn>>>>]
    ELSE IF BagToSet(L) # {} /\ BagCardinality(L) % 2 = 0
    THEN [thrown |-> FALSE, ranges |-> theta_limits_even(sort_limits(L), is_end)]
    ELSE [thrown |-> FALSE, ranges |-> <<>>]

\* the equirectangular theta_limits from the intersections on
equirectangular(enclosed, external, L, is_end) ==
    IF enclosed
    THEN [thrown |-> FALSE, ranges |-> IF external THEN <<>> ELSE <<<<0, Turn>>>>]
    ELSE IF BagToSet(L) # {}
    THEN IF BagCardinality(L) % 2 = 0
         THEN [thrown |-> FALSE,
               ranges |-> theta_limits_even(sort_limits(L), is_end)]
         ELSE [thrown |-> TRUE, ranges |-> <<>>]
    ELSE [thrown |-> FALSE, ranges |-> <<>>]

\* the two early returns of the radial theta_limits: the whole row, nothing
RadialWhole == <<<<0, Turn>>>>
RadialNothing == <<<<0, 0>>>>

\* t1 = offset + atan2(-y, x) and t2 = offset + atan2(y, x), each normalised;
\* y is a square root, so atan2(y, x) = alpha lies in [0, pi] and
\* atan2(-y, x) = -alpha
radial_arc(o, alpha) == <<normalise(o - alpha), normalise(o + alpha)>>

\* t1 and t2 when x, and with it y, is NaN
RadialNaN == <<NaN, NaN>>

\* the radial theta_limits up to the division by r_x, in the unit of the
\* build (M_PI_2 is HalfPi): p is the phi of the row, ci the inclination of
\* the camera axis and hf half the field of view
upper(p) == p > HalfPi

\* the first early return: the row is entirely inside the field of view
contained(p, ci, hf) ==
    \/ upper(p) /\ hf - (Pi - ci) > Pi - p
    \/ ~upper(p) /\ hf - ci > p

\* the second early return: the row is entirely outside
outside(p, ci, hf) ==
    \/ upper(p) /\ hf + (Pi - ci) < Pi - p
    \/ ~upper(p) /\ hf + ci < p

\* r_x = cam[0] * cos_offset + cam[1] * sin_offset is the length of the
\* horizontal part of the unit vector cam, sin(cam_inc): zero for a
\* vertical axis
r_x_zero(ci) == ci \in {0, Pi}

\* cos_half_fov - cam[2] * z = cos(hf) - cos(ci) * cos(p) for a vertical axis
numerator_zero(p, ci, hf) == (ci = 0 /\ hf = p) \/ (ci = Pi /\ hf = Pi - p)

\* which way theta_limits leaves: "whole" and "nothing" by an early return,
\* "nan" with x = 0 / 0, "infinite" with x = +-inf and so y_disc < 0,
\* "solved" with a finite x
radial(p, ci, hf) ==
    IF contained(p, ci, hf) THEN "whole"
    ELSE IF outside(p, ci, hf) THEN "nothing"
    ELSE IF r_x_zero(ci) THEN (IF numerator_zero(p, ci, hf) THEN "nan" ELSE "infinite")
    ELSE "solved"

\* what the conversion of a NaN to size_t can yield: any value, those above
\* every row size being alike
Unsigned == 0..(MaxRowSize + 1)

\* size_t(std::ceil(row_size * theta * (1.0 / (2.0 * M_PI)))), g being what
\* the conversion yields when theta is NaN
local_index(row_size, theta, g) ==
    IF theta = NaN THEN g ELSE (row_size * theta + Turn - 1) \div Turn

\* the index ranges lookup emits for one theta range of a row
range_indices(row, range, g) ==
    LET row_size == row.end - row.begin
        b == local_index(row_size, range[1], g[1])
        e == local_index(row_size, range[2], g[2])
        begin == IF b > row_size THEN 0 ELSE b
        end == IF e > row_size THEN row_size ELSE e
    IN  IF begin = end THEN <<>>
        ELSE IF begin < end THEN <<<<row.begin + begin, row.begin + end>>>>
        ELSE <<<<row.begin, row.begin + end>>, <<row.begin + begin, row.end>>>>

\* ... and for all the theta ranges of the row
RECURSIVE row_indices(_, _, _)
row_indices(row, ranges, g) ==
    IF ranges = <<>> THEN <<>>
    ELSE range_indices(row, Head(ranges), g) \o row_indices(row, Tail(ranges), g)

\* a mesh out of ms has been built; lookup(Hoc, lens) is called with a lens
\* of a type out of ls
LookupStart(ms, ls, cs) ==
    /\ CacheInit
    /\ cached_meshes = 0
    /\ intersection_tolerance = 0
    /\ \E f \in ms :
          LET made == generate(f, <<>>, <<>>)
              s == stitch(made.rows, made.lut, 0)
          IN  /\ phis = f
              /\ rows = made.rows
              /\ lut = s.lut
              /\ ub = s.ub
    /\ bpc = "done"
    /\ phi = NaN
    /\ nan_next = FALSE
    /\ lpc = "switch"
    /\ lens \in ls
    /\ lr = 0
    /\ theta_ranges = <<>>
    /\ indices = <<>>
    /\ odd_rows = {}
    /\ limits = <<>>
    /\ first_is_end = FALSE
    /\ \E c \in cs : cam_inc = c[1] /\ half_fov = c[2] /\ offset = c[3]
    /\ result = <<>>
    /\ OpInit

\* lookups in which the camera is left open
LookupInit ==
    LookupStart({SamplesOf(f) : f \in LookupMeshes},
                {"EQUIRECTANGULAR", "RADIAL", "OTHER"}, {<<NaN, NaN, NaN>>})

\* switch (lens.type): the two known types go on to lookup(height,
\* theta_limits), any other throws "Unknown lens type"
LookupSwitch ==
    /\ lpc = "switch"
    /\ lpc' = IF lens \in {"EQUIRECTANGULAR", "RADIAL"} THEN "rows" ELSE "thrown"
    /\ UNCHANGED <<camera, lr, theta_ranges, indices, odd_rows, limits, first_is_end,
                   result, cache, build, op>>

\* one row of the loop with the theta_limits theta_ranges came from; an
\* exception of theta_limits is not caught and ends the call
LookupRow(tl) ==
    /\ lpc = "rows"
    /\ lr < Len(rows)
    /\ IF tl.thrown
       THEN /\ lpc' = "thrown"
            /\ indices' = <<>>
            /\ UNCHANGED <<lr, theta_ranges>>
       ELSE /\ theta_ranges' = tl.ranges
            /\ \E b \in Unsigned, e \in Unsigned :
                  /\ (\A k \in DOMAIN tl.ranges : NaN \notin {tl.ranges[k][1], tl.ranges[k][2]})
                        => b = 0 /\ e = 0
                  /\ indices' = indices \o row_indices(rows[lr + 1], tl.ranges, <<b, e>>)
            /\ lr' = lr + 1
            /\ UNCHANGED lpc
    /\ UNCHANGED <<camera, result, cache, build, op>>

\* a row under the equirectangular lens with intersections out of bags; the
\* probe for external is made only when enclosed, the mid-point probe only
\* for an even, positive number of intersections, and the exception takes
\* the limits with it
IntersectedRow(bags) ==
    /\ lens = "EQUIRECTANGULAR"
    /\ lpc = "rows" /\ lr < Len(rows)
    /\ \E enclosed \in BOOLEAN, external \in BOOLEAN, L \in bags, is_end \in BOOLEAN :
          /\ enclosed => BagToSet(L) = {}
          /\ external => enclosed
          /\ is_end => ~enclosed /\ BagToSet(L) # {} /\ BagCardinality(L) % 2 = 0
          /\ LookupRow(equirectangular(enclosed, external, L, is_end))
          /\ limits' = IF BagCardinality(L) % 2 = 1 THEN <<>> ELSE sort_limits(L)
          /\ first_is_end' = is_end
          /\ odd_rows' = IF ~enclosed /\ BagCardinality(L) % 2 = 1
                         THEN odd_rows \cup {lr} ELSE odd_rows

RowLimits == LimitBags(MaxLimits)

EquirectangularRow == IntersectedRow(RowLimits)

\* a row under the radial lens ends in one of kinds, with offset out of os
RadialOutcome(kinds, os) ==
    /\ lens = "RADIAL"
    /\ lpc = "rows" /\ lr < Len(rows)
    /\ \/ /\ "whole" \in kinds
          /\ LookupRow([thrown |-> FALSE, ranges |-> RadialWhole])
          /\ limits' = <<>>
       \/ /\ kinds \cap {"nothing", "infinite", "solved"} # {}
          /\ LookupRow([thrown |-> FALSE, ranges |-> RadialNothing])
          /\ limits' = <<>>
       \/ /\ "nan" \in kinds
          /\ LookupRow([thrown |-> FALSE, ranges |-> <<RadialNaN>>])
          /\ limits' = RadialNaN
       \/ /\ "solved" \in kinds
          /\ \E o \in os, alpha \in 0..(Turn \div 2) :
                /\ LookupRow([thrown |-> FALSE, ranges |-> <<radial_arc(o, alpha)>>])
                /\ limits' = radial_arc(o, alpha)
    /\ UNCHANGED <<odd_rows, first_is_end>>

\* a row under the radial lens with the camera left open
RadialRow == RadialOutcome({"whole", "nothing", "nan", "infinite", "solved"}, Atan2s)

\* a row under the radial lens with the camera of the call
SolvedRow ==
    /\ lr < Len(rows)
    /\ RadialOutcome({radial(rows[lr + 1].phi, cam_inc, half_fov)}, {offset})

\* return {mesh, indices}
LookupReturn ==
    /\ lpc = "rows"
    /\ lr = Len(rows)
    /\ lpc' = "done"
    /\ result' = indices
    /\ UNCHANGED <<camera, lr, theta_ranges, indices, odd_rows, limits, first_is_end,
                   cache, build, op>>

LookupNext ==
    \/ LookupSwitch
    \/ EquirectangularRow
    \/ RadialRow
    \/ LookupReturn

LookupSpec == LookupInit /\ [][LookupNext]_vars

\* the pairing of the intersections on its own: lookups under the
\* equirectangular lens on meshes of one row, with up to MaxPairs pairs of
\* intersections
PairLimits == LimitBags(2 * MaxPairs)

PairedRow == IntersectedRow(PairLimits)

PairingInit ==
    LookupStart({SamplesOf(f) : f \in {h \in LookupMeshes : Len(h) = 1}},
                {"EQUIRECTANGULAR"}, {<<NaN, NaN, NaN>>})

PairingNext ==
    \/ LookupSwitch
    \/ PairedRow
    \/ LookupReturn

PairingSpec == PairingInit /\ [][PairingNext]_vars

\* the radial theta_limits followed through: lookups under the radial lens
\* with a given camera, on meshes whose rows have a phi on the grid of the
\* build, on either side of the horizon
Cameras == (0..Pi) \X (0..Pi) \X Atan2s

RadialMeshes ==
    UNION {{f \in [1..n -> ((0..Pi) \ {HalfPi}) \X (1..MaxRowSize)] :
               \A k \in 1..(n - 1) : f[k][1] < f[k + 1][1]} : n \in 0..MaxLookupRows}

RadialInit == LookupStart(RadialMeshes, {"RADIAL"}, Cameras)

RadialNext ==
    \/ LookupSwitch
    \/ SolvedRow
    \/ LookupReturn

RadialSpec == RadialInit /\ [][RadialNext]_vars

\* ------------------------------------------------------------- the op
\* VisualMeshOp::Compute reads its inputs, checks the projection and the
\* geometry strings with OP_REQUIRES and then calls get_mesh; nothing else
\* about the values is checked.

Projections == {"EQUISOLID", "EQUIDISTANT", "RECTILINEAR", "OTHER"}
Geometries == {"SPHERE", "CIRCLE", "OTHER"}
\* the sign of the radius input
Radii == {0 - 1, 1}

\* the two OP_REQUIRES on the values
projection_ok(p) == p = "EQUISOLID" \/ p = "EQUIDISTANT" \/ p = "RECTILINEAR"
geometry_ok(g) == g = "SPHERE" \/ g = "CIRCLE"

Request(p, g, r, n, c, status) ==
    [projection |-> p, geometry |-> g, radius |-> r, n_intersections |-> n,
     cached_meshes |-> c, status |-> status]

\* tensorflow::int32 cached_meshes =
\*     context->input(Args::N_INTERSECTIONS).scalar<tensorflow::int32>()(0):
\* the local cached_meshes of Compute from the inputs n and c of the op
read_cached_meshes(n, c) == n

\* Compute returns from an OP_REQUIRES with InvalidArgument
ComputeRejected(t) ==
    /\ pc[t] = "idle"
    /\ calls < MaxCalls
    /\ \E p \in Projections, g \in Geometries, r \in Radii, n \in Ks, c \in Ks :
          /\ ~(projection_ok(p) /\ geometry_ok(g))
          /\ cached_meshes = read_cached_meshes(n, c)
          /\ op' = [op EXCEPT ![t] = Request(p, g, r, n, c, "InvalidArgument")]
    /\ calls' = calls + 1
    /\ UNCHANGED <<meshes, mesh_mutex, pc, args, new_mesh, ret, use_count,
                   destroyed, allocated, clock, lastUse, config, firstFor,
                   inserted, apart>>

\* Compute passes both checks and calls get_mesh with the n_intersections
\* and the cached_meshes it read; the cache the calls of a run share is
\* the one of that capacity
ComputeAccepted(t) ==
    /\ \E p \in Projections, g \in Geometries, r \in Radii, n \in Ks, c \in Ks :
          /\ projection_ok(p) /\ geometry_ok(g)
          /\ cached_meshes = read_cached_meshes(n, c)
          /\ op' = [op EXCEPT ![t] = Request(p, g, r, n, c, "OK")]
          /\ Enter(t, Heights, {n}, {1}, MaxCalls)

OpNext ==
    \E t \in Threads :
        \/ ComputeRejected(t)
        \/ ComputeAccepted(t)
        \/ Lock1(t)
        \/ Find1(t)
        \/ Build(t)
        \/ Lock2(t)
        \/ Find2(t)
        \/ Drop(t)

OpSpecInit == Init /\ cached_meshes \in Ks

OpSpec == OpSpecInit /\ [][OpNext]_vars

\* ---------------------------------------------------------------- claims
Returned(t) == pc[t] = "returned"

InCache(id) == id \in CachedIds(meshes)

\* C1: with capacity c >= 1 the cache list never holds more than c entries
\* while the mutex is free
C1_Capacity ==
    (cached_meshes >= 1 /\ mesh_mutex = {}) => Len(meshes) <= cached_meshes

\* C2: every mesh get_mesh returns has a k error within the tolerance for
\* the height and k it was requested with
C2_ToleranceHonoured ==
    \A t \in Threads :
        Returned(t) =>
            Leq(mesh_k_error(ret[t].h, args[t].h, args[t].k), Q(intersection_tolerance))

\* C3: every mesh get_mesh returns was built for the requested max_distance
C3_MaxDistanceMatches ==
    \A t \in Threads : Returned(t) => ret[t].max_distance = args[t].d

\* C4: in the step in which get_mesh returns, the returned mesh is the entry
\* at position 0 of the cache list
C4_ReturnedAtFront ==
    [][\A t \in Threads :
          (pc[t] # "returned" /\ pc'[t] = "returned")
              => (meshes' # <<>> /\ meshes'[1] = ret'[t])]_vars

\* C5: an entry dropped by an insertion was used no later than every entry
\* that stays in the cache (least recently used first)
C5_EvictsLeastRecentlyUsed ==
    [][\A x \in CachedIds(meshes) \ CachedIds(meshes') :
          \A y \in CachedIds(meshes) \cap CachedIds(meshes') :
              lastUse[x] <= lastUse[y]]_vars

\* C6: a call repeated with the same height, k, tolerance and max_distance
\* returns the very mesh object the first such call returned, while that
\* object is still cached
C6_SameMeshForSameArgs ==
    \A t \in Threads :
        (Returned(t) /\ InCache(FirstFor(args[t])))
            => ret[t].id = FirstFor(args[t])

C8_HandlesOutliveEviction ==
    /\ \A t \in Threads : Returned(t) => ret[t].id \notin destroyed
    /\ \A i \in destroyed :
          /\ ~InCache(i)
          /\ \A t \in Threads : ret[t].id # i
          /\ \A t \in Threads : pc[t] \in {"lock2", "find2"} => new_mesh[t].id # i

\* a caller still holds a handle to a mesh that has been evicted
C8_Witness ==
    \E t \in Threads :
        /\ Returned(t)
        /\ ret[t].id \in inserted
        /\ ~InCache(ret[t].id)
        /\ use_count[ret[t].id] > 0

\* C9: the list changes only in a step of the one thread that owns the mutex,
\* a thread owns it exactly while it is inside one of the two scopes, and so
\* never while it constructs a mesh
C9_MutexDiscipline ==
    [][/\ (meshes' # meshes) =>
              \E t \in Threads : mesh_mutex = {t} /\ pc[t] \in {"find1", "find2"}
       /\ Cardinality(mesh_mutex') <= 1
       /\ \A t \in Threads : (t \in mesh_mutex') <=> (pc'[t] \in {"find1", "find2"})]_vars

\* one thread is constructing a mesh while another is inside a lookup scope
C9_Witness ==
    \E t1, t2 \in Threads :
        /\ pc[t1] = "build"
        /\ pc[t2] = "find1"
        /\ mesh_mutex = {t2}

\* C10: a returned mesh was built for the intersection count k that the
\* request asked for
C10_KeyedByIntersections ==
    \A t \in Threads : Returned(t) => ret[t].k = args[t].k

\* C19: a scan of the first scope that finds no entry within the tolerance
\* leaves the cache list as it was, in contents and in order
C19_MissLeavesListUnchanged ==
    [][\A t \in Threads :
          (pc[t] = "find1" /\ pc'[t] = "build") => meshes' = meshes]_vars

\* the k error of cached mesh m for the request a
KError(m, a) == mesh_k_error(m.h, a.h, a.k)

\* entry i of ms has the requested max_distance and the lowest k error of
\* the entries that have it, and is the first of them on a tie
IsLowestError(ms, i, a) ==
    /\ ms[i].max_distance = a.d
    /\ \A j \in 1..Len(ms) :
          ms[j].max_distance = a.d =>
              IF j < i THEN Less(KError(ms[i], a), KError(ms[j], a))
                       ELSE Leq(KError(ms[i], a), KError(ms[j], a))

\* C20: on a hit of the first scope the mesh returned is the entry with the
\* lowest k error among the entries with the requested max_distance, the
\* first one on a tie, wherever it sat in the list
C20_HitReturnsLowestError ==
    [][\A t \in Threads :
          (pc[t] = "find1" /\ pc'[t] = "returned") =>
              \E i \in 1..Len(meshes) :
                  /\ IsLowestError(meshes, i, args[t])
                  /\ ret'[t] = meshes[i]]_vars

\* ------------------------------------------------- claims about the mesh
Built == bpc = "done"

\* nodes[i].neighbours[d] of the table under construction
Nb(i, d) == lut[i + 1][d + 1]

NodeIds == 0..(Len(lut) - 1)

\* TL <-> BR, TR <-> BL, L <-> R
Complement(d) == 5 - d

\* TL/TR of the first row and BL/BR of the last row
AtPole(i, d) ==
    \/ d \in {0, 1} /\ RowOf(rows, i) = 0
    \/ d \in {4, 5} /\ RowOf(rows, i) = Len(rows) - 1

\* node i + neighbours[d] lists i in direction e
ListsBack(i, d, e) ==
    LET j == i + Nb(i, d)
    IN  InLut(lut, j) /\ j + Nb(j, e) = i

C12_OffsetsInRange ==
    (Built /\ rows # <<>>) =>
        /\ ~ub
        /\ \A i \in NodeIds : \A d \in 0..5 : InLut(lut, i + Nb(i, d))

\* C13: in a built mesh the rows ascend strictly in phi and their index
\* ranges partition the table, each row as long as the step count of its
\* sample
C13_RowsPartitionTable ==
    Built =>
        /\ Len(rows) = Len(phis)
        /\ \A r \in 1..Len(rows) :
              /\ rows[r].begin = (IF r = 1 THEN 0 ELSE rows[r - 1].end)
              /\ r > 1 => rows[r - 1].phi < rows[r].phi
              /\ \E k \in 1..Len(phis) :
                    phis[k] = <<rows[r].phi, rows[r].end - rows[r].begin>>
        /\ Len(lut) = (IF rows = <<>> THEN 0 ELSE rows[Len(rows)].end)

C13_Witness ==
    /\ Built
    /\ Len(rows) >= 3
    /\ rows[1].phi < HalfPi
    /\ rows[Len(rows) - 1].phi > HalfPi
    /\ phis # std_sort(phis)

\* the node reached from node i by following R k times
RECURSIVE FollowR(_, _)
FollowR(i, k) == IF k = 0 THEN i ELSE FollowR(i + Nb(i, 3), k - 1)

\* C14: in every row of N nodes, node p has L = N-1 if p = 0 else -1 and
\* R = -(N-1) if p = N-1 else +1; both stay in the row, each undoes the
\* other, and following R goes through all N nodes and is back after N steps
C14_RingClosure ==
    Built =>
        \A r \in 1..Len(rows) :
            LET b == rows[r].begin
                N == rows[r].end - b
            IN  \A p \in 0..(N - 1) :
                    /\ Nb(b + p, 2) = (IF p = 0 THEN N - 1 ELSE 0 - 1)
                    /\ Nb(b + p, 3) = (IF p = N - 1 THEN 0 - (N - 1) ELSE 1)
                    /\ b + p + Nb(b + p, 2) \in b..(b + N - 1)
                    /\ b + p + Nb(b + p, 3) \in b..(b + N - 1)
                    /\ Nb(b + p + Nb(b + p, 2), 3) = 0 - Nb(b + p, 2)
                    /\ Nb(b + p + Nb(b + p, 3), 2) = 0 - Nb(b + p, 3)
                    /\ {FollowR(b + p, k) : k \in 0..(N - 1)} = b..(b + N - 1)
                    /\ FollowR(b + p, N) = b + p

C14_Witness ==
    /\ Built
    /\ \E r \in 1..Len(rows) : rows[r].end - rows[r].begin = 1
    /\ \E r \in 1..Len(rows) : rows[r].end - rows[r].begin >= 3

\* C15: with no row at all the construction ends without a read out of
\* range and leaves an empty table
C15_EmptyMeshBuilds ==
    (bpc \in {"done", "crashed"} /\ rows = <<>>) =>
        (Built /\ ~ub /\ lut = <<>>)

\* ------------------------------------------------ claims about the lookup
\* the nodes a sequence of index ranges [first, second) covers
Covered(ranges) ==
    UNION {ranges[k][1]..(ranges[k][2] - 1) : k \in 1..Len(ranges)}

\* node j of a row of N nodes, at theta = Turn * j / N, lies in the theta
\* interval from lo to hi, which wraps around when lo > hi
InInterval(j, N, lo, hi) ==
    IF lo <= hi THEN lo * N <= j * Turn /\ j * Turn < hi * N
                ELSE lo * N <= j * Turn \/ j * Turn < hi * N

\* the nodes of the row that lie in one of the theta ranges
Inside(row, ranges) ==
    {row.begin + j : j \in {i \in 0..(row.end - row.begin - 1) :
        \E k \in 1..Len(ranges) :
            InInterval(i, row.end - row.begin, ranges[k][1], ranges[k][2])}}

\* C16: when the theta ranges of a row lie in [0, 2 pi), the index ranges
\* lookup emits for the row cover exactly the nodes whose theta lies in one
\* of them, wrap-around ranges included
C16_RangesCoverInterval ==
    [][(/\ lpc = "rows"
        /\ lr' = lr + 1
        /\ \A k \in 1..Len(theta_ranges') :
              /\ 0 <= theta_ranges'[k][1] /\ theta_ranges'[k][1] < Turn
              /\ 0 <= theta_ranges'[k][2] /\ theta_ranges'[k][2] < Turn)
        => Covered(SubSeq(indices', Len(indices) + 1, Len(indices')))
              = Inside(rows[lr + 1], theta_ranges')]_vars

\* C17: a row with an odd number of intersections is skipped and the lookup
\* goes on: it never ends in the exception
C17_OddRowSkipped == odd_rows # {} => lpc \in {"rows", "done"}

\* C17, amended: a row with an odd number of intersections ends the lookup
\* with the exception theta_limits throws: no index range is returned, and a
\* lookup that returns has met no such row
C17_OddRowAborts ==
    /\ odd_rows # {} => (lpc = "thrown" /\ odd_rows = {lr} /\ result = <<>>)
    /\ lpc = "done" => odd_rows = {}

C17_Witness ==
    /\ lens = "EQUIRECTANGULAR"
    /\ lpc = "thrown"
    /\ Len(rows) = 2
    /\ odd_rows = {1}

\* ---------------------------------------------------- claims about the op
Invalid(q) == ~projection_ok(q.projection) \/ ~geometry_ok(q.geometry) \/ q.radius < 0

\* C18: a Compute with an unknown projection or geometry or a negative
\* radius ends with an error status and never reaches get_mesh
C18_InvalidInputRejected ==
    \A t \in Threads :
        (op[t] # NoRequest /\ Invalid(op[t])) => op[t].status = "InvalidArgument"

\* ---------------------------------------------- claims about the stitching
\* the row with index r of the table under construction
RowNodes(r) == rows[r + 1].begin..(rows[r + 1].end - 1)

\* the two neighbours d and d + 1 of node i lie in row r, the second being
\* the R neighbour of the first
AdjacentIn(i, d, r) ==
    /\ i + Nb(i, d) \in RowNodes(r)
    /\ i + Nb(i, d + 1) \in RowNodes(r)
    /\ i + Nb(i, d + 1) = i + Nb(i, d) + Nb(i + Nb(i, d), 3)

\* C21: in a built mesh TL and TR of every node below the first row lie in
\* the previous row, BL and BR of every node above the last row lie in the
\* next row, and in both pairs the second node is the R neighbour of the
\* first
C21_VerticalLinksAdjacent ==
    Built =>
        \A i \in NodeIds :
            /\ RowOf(rows, i) > 0 => AdjacentIn(i, 0, RowOf(rows, i) - 1)
            /\ RowOf(rows, i) < Len(rows) - 1 => AdjacentIn(i, 4, RowOf(rows, i) + 1)

\* the rows node i is linked to by the link lambda, with the slot of the
\* pair: <<0, r - 1>> for TL/TR, <<4, r + 1>> for BL/BR
Linked(i) ==
    LET r == RowOf(rows, i)
    IN  {<<0, r - 1>> : x \in {r} \ {0}} \cup {<<4, r + 1>> : x \in {r} \ {Len(rows) - 1}}

\* left = pos > 0.5 for node i
LinkLeft(i) ==
    LET row == rows[RowOf(rows, i) + 1]
    IN  2 * (i - row.begin) > row.end - row.begin

\* o1 = start + floor(pos * size + !left) for node i and target row r
LinkO1(i, r) ==
    LET row == rows[RowOf(rows, i) + 1]
        target == rows[r + 1]
    IN  target.begin
          + (((i - row.begin) * (target.end - target.begin)) \div (row.end - row.begin))
          + (IF LinkLeft(i) THEN 0 ELSE 1)

\* the absolute indices stored at neighbours[d] and neighbours[d + 1] of node i
Stored(i, d) == <<i + Nb(i, d), i + Nb(i, d + 1)>>

\* C22 as claimed: the second index is o1 plus the L offset of node o1 when
\* left is true and o1 plus its R offset otherwise
C22_SecondIsLWhenLeft ==
    Built =>
        \A i \in NodeIds : \A p \in Linked(i) :
            LinkO1(i, p[2]) \in NodeIds =>
                LET o1 == LinkO1(i, p[2])
                IN  Stored(i, p[1]) = IF LinkLeft(i) THEN <<o1, o1 + Nb(o1, 2)>>
                                      ELSE <<o1 + Nb(o1, 3), o1>>

\* C22 amended: the second index is o1 plus the R offset of node o1 when
\* left is true and o1 plus its L offset otherwise; o1 is stored as the left
\* candidate when left is true and as the right candidate otherwise
C22_SecondIsRWhenLeft ==
    Built =>
        \A i \in NodeIds : \A p \in Linked(i) :
            LinkO1(i, p[2]) \in NodeIds =>
                LET o1 == LinkO1(i, p[2])
                IN  Stored(i, p[1]) = IF LinkLeft(i) THEN <<o1, o1 + Nb(o1, 3)>>
                                      ELSE <<o1 + Nb(o1, 2), o1>>

\* a built mesh in which a node with left true and a node with left false
\* are linked into a row of at least three nodes, where L and R differ
C22_Witness ==
    /\ Built
    /\ \A b \in BOOLEAN :
           \E i \in NodeIds : \E p \in Linked(i) :
               /\ LinkLeft(i) = b
               /\ LinkO1(i, p[2]) \in RowNodes(p[2])
               /\ rows[p[2] + 1].end - rows[p[2] + 1].begin >= 3

\* neighbours d and d + 1 of node i are the nodes of its own row at the
\* positions (p + floor(N / 2)) mod N and (p + floor(N / 2) + 1) mod N
PoleLinks(i, d) ==
    LET row == rows[RowOf(rows, i) + 1]
        N == row.end - row.begin
        p == i - row.begin
    IN  Stored(i, d) = <<row.begin + ((p + (N \div 2)) % N),
                         row.begin + ((p + (N \div 2) + 1) % N)>>

\* neighbours d and d + 1 of node i are what the link rule yields towards
\* row r, as far as the node o1 it reads exists
NormalLinks(i, d, r) ==
    LinkO1(i, r) \in NodeIds =>
        LET o1 == LinkO1(i, r)
        IN  Stored(i, d) = IF LinkLeft(i) THEN <<o1, o1 + Nb(o1, 3)>>
                           ELSE <<o1 + Nb(o1, 2), o1>>

\* C23: in a built mesh every node of the first row has its TL and TR on the
\* opposite side of its own row and every node of the last row its BL and
\* BR, and the other vertical pair of these rows follows the link rule
\* towards the adjacent row
C23_PoleStitching ==
    Built =>
        \A i \in NodeIds :
            LET r == RowOf(rows, i)
                last == Len(rows) - 1
            IN  /\ r = 0 => PoleLinks(i, 0) /\ (last > 0 => NormalLinks(i, 4, 1))
                /\ r = last => PoleLinks(i, 4) /\ (last > 0 => NormalLinks(i, 0, last - 1))

\* ----------------------------------------------- claims about the sampling
\* C24: once shape.phi has returned NaN inside a sampling loop no further
\* sample is added by that loop, and no sample with a NaN angle or step
\* count is ever kept
C24_NoRowAfterNaN ==
    /\ [][nan_next => phis' = phis]_vars
    /\ [](\A k \in 1..Len(phis) : phis[k][1] # NaN /\ phis[k][2] # NaN)

\* ------------------------------------------------- claims about the lookup
\* how often x is an element of the sequence s
Count(s, x) == Cardinality({k \in DOMAIN s : s[k] = x})

\* the end points of the ranges, in the order of the ranges
EndPoints(ranges) == [k \in 1..(2 * Len(ranges)) |-> ranges[(k + 1) \div 2][2 - (k % 2)]]

C26_ThetasNormalised ==
    \A k \in DOMAIN limits :
        /\ 0 <= limits[k] /\ limits[k] < Turn
        /\ \E j \in DOMAIN theta_ranges : limits[k] \in {theta_ranges[j][1], theta_ranges[j][2]}

\* the index ranges in s do not overlap
Disjoint(s) ==
    \A j \in DOMAIN s : \A k \in DOMAIN s :
        j # k => (s[j][1]..(s[j][2] - 1)) \cap (s[k][1]..(s[k][2] - 1)) = {}

\* C30: every index range lookup emits for a row is non-empty and lies
\* inside the row, and the ranges emitted for one theta range of the row do
\* not overlap
C30_RangesWellFormed ==
    [][(lpc = "rows" /\ lr' = lr + 1) =>
          LET row == rows[lr + 1]
              new == SubSeq(indices', Len(indices) + 1, Len(indices'))
          IN  /\ \A k \in DOMAIN new :
                    /\ new[k][1] < new[k][2]
                    /\ row.begin <= new[k][1]
                    /\ new[k][2] <= row.end
              /\ \A j \in DOMAIN theta_ranges' : \A b \in Unsigned, e \in Unsigned :
                    Disjoint(range_indices(row, theta_ranges'[j], <<b, e>>))]_vars

\* C28: the capacity get_mesh works with in a Compute that passed the
\* checks is the value of the cached_meshes input of that Compute
C28_CapacityFromCachedMeshes ==
    \A t \in Threads : op[t].status = "OK" => cached_meshes = op[t].cached_meshes

\* C27: under the radial lens with a vertical camera axis every row the
\* lookup has been through was settled by one of the two early returns, so
\* the division by r_x was not reached with r_x = 0
C27_VerticalAxisResolvedEarly ==
    (lens = "RADIAL" /\ lpc \in {"rows", "done"} /\ r_x_zero(cam_inc)) =>
        \A r \in 1..lr :
            \/ contained(rows[r].phi, cam_inc, half_fov)
            \/ outside(rows[r].phi, cam_inc, half_fov)

\* ------------------------------------------- claims about the cache, again
\* the statements of get_mesh in the order a call goes through them
Rank(p) ==
    CASE p = "lock1" -> 1 [] p = "find1" -> 2 [] p = "build" -> 3
      [] p = "lock2" -> 4 [] p = "find2" -> 5 [] OTHER -> 6

====
